---------------------------- MODULE Spec2Model ----------------------------
(***************************************************************************)
(* A model of the live-reloading orchestrators of this repository:         *)
(*   - live_reload::Reloadable<Host>   (src/src/lib.rs)                    *)
(*   - reload_api::App                 (src/reload-api/src/lib.rs)         *)
(* Both own a state buffer (Vec<u64>), an optional loaded library          *)
(* (Option<AppSym>), the canonical artifact path and the receiving end of  *)
(* the watcher's event channel.  The variable `variant` says which of the  *)
(* two types a behaviour is about.                                         *)
(*                                                                         *)
(* The environment is: the artifact file on disk (`disk`), the background  *)
(* watch worker that enqueues events (`Notify`), the build that rewrites   *)
(* the artifact (`Build`), and the code of the loaded library, whose       *)
(* lifecycle entries may write into the state buffer and the host value.   *)
(***************************************************************************)
EXTENDS Integers, Sequences, FiniteSets

VARIABLES
    variant,    \* "Reloadable" (src/src/lib.rs) or "App" (reload-api)
    life,       \* "start" | "alive" | "failed" | "dropped" | "panicked"
    disk,       \* the artifact at the path: Bad, or Lib(size)
    queue,      \* rx: the events sent by the watcher and not yet received
    sym,        \* Option<AppSym>: None, or Some(handle id, declared size)
    handles,    \* the library handles that are open
    nextId,     \* the number of the next library handle
    state,      \* Vec<u64>: a sequence of 8-byte words
    alloc,      \* where the words of state are, and how many fit there
    host,       \* the Host value (Reloadable only)
    log,        \* every call made through an ABI table, in order
    obs,        \* what the last public operation did and returned
    env,        \* what the environment may do: fixed when a behaviour starts
    call        \* where the caller is inside reload(), taken step by step

vars == <<variant, life, disk, queue, sym, handles, nextId, state, alloc,
          host, log, obs, env, call>>

---------------------------------------------------------------------------
(* Bounds of the model *)

\* Longest call history explored, when the library code is followed (Spec)
\* and when the watcher is (SpecWatch).
MaxLog == 8
WatchLog == 5

\* Most events waiting in the channel, in Spec and in SpecWatch.
LifeQueue == 1
MaxQueue == 2

\* Library handles opened before the watcher of SpecPoll falls silent.
MaxLoads == 3

\* Events the watcher's worker sends in a behaviour of SpecDrain.
MaxEvents == 3

\* Width in bits of the modelled usize.
UsizeBits == 8

\* The nonzero byte values the modelled library code writes.
Stamps == {1}

---------------------------------------------------------------------------
(* Values *)

\* Option<AppSym>::None, and Some(AppSym) for handle id and declared size.
None == [some |-> FALSE, id |-> 0, size |-> 0]
Some(id, size) == [some |-> TRUE, id |-> id, size |-> size]

\* The artifact at the path: one that AppSym::new cannot load (missing,
\* half-written, without RELOAD_API), or a library whose size() is `size`.
Bad == [ok |-> FALSE, size |-> 0]
Lib(size) == [ok |-> TRUE, size |-> size]
Artifacts == {Bad} \cup {Lib(s) : s \in env.sizes}

UsizeMod == 2 ^ UsizeBits

\* A word of a vector extended without initialising it.
ZeroWord_stale == [i \in 1..8 |-> 1]

\* One u64 of the buffer, as its 8 bytes in address order.
ZeroWord == [i \in 1..8 |-> 0]

\* The byte of buffer `buf` at byte offset `o`.
Byte(buf, o) == buf[(o \div 8) + 1][(o % 8) + 1]

\* The number of bytes buffer `buf` holds.
ByteLen(buf) == 8 * Len(buf)

\* Whether the buffer holds a byte at offset `o`.
Held(buf, o) == o < ByteLen(buf)

\* buf with the byte at offset o set to v (a store through the state pointer).
SetByte(buf, o, v) == [buf EXCEPT ![(o \div 8) + 1][(o % 8) + 1] = v]

\* A resize that only ever grows the vector.
Resize_grow_only(buf, n, fill) ==
    IF n <= Len(buf)
    THEN buf
    ELSE buf \o [i \in 1..(n - Len(buf)) |-> fill]

\* Vec::resize(n, fill): truncate, or extend with copies of fill.
Resize(buf, n, fill) ==
    IF n <= Len(buf)
    THEN SubSeq(buf, 1, n)
    ELSE buf \o [i \in 1..(n - Len(buf)) |-> fill]

\* A word count that rounds the byte count down.
alloc_size_u64s_floor(size) == size \div 8

\* realloc_buffer, line 371: `size + 7` does not fit a usize.
add_overflows(size) == size + 7 >= UsizeMod

\* realloc_buffer, line 371: alloc_size_u64s = (size + 7) / 8.  The sum is a
\* usize and wraps at its width, as in a build without overflow checks (a
\* build with them panics instead, see overflow_panics).
alloc_size_u64s(size) == ((size + 7) % UsizeMod) \div 8

\* A realloc_buffer that allocates a fresh zeroed vector of the new size.
realloc_buffer_fresh(buf, size) == Resize(<<>>, alloc_size_u64s(size), ZeroWord)

\* realloc_buffer: state.resize(alloc_size_u64s, 0).
realloc_buffer(buf, size) == Resize(buf, alloc_size_u64s(size), ZeroWord)

\* The allocation of a Vec<u64>: addr is the address as_mut_ptr() returns
\* (NoAddr for the dangling pointer of a vector that never allocated), cap
\* its capacity in words, min the least capacity the build's Vec allocates.
\* init remembers the address that was handed to `init`.  checked tells
\* whether the build checks integer arithmetic for overflow (a debug
\* profile does, a release profile does not).
NoAddr == 0

NoAlloc(min) ==
    [addr |-> NoAddr, cap |-> 0, min |-> min, init |-> NoAddr, checked |-> FALSE]

\* realloc_buffer, line 371, in a build with overflow checks: the addition
\* panics ("attempt to add with overflow") instead of wrapping.
overflow_panics(a, size) == a.checked /\ add_overflows(size)

Max(a, b) == IF a >= b THEN a ELSE b

\* A resize that allocates a new block of n words on every call.
Reserve_always_moves(a, n) ==
    {[a EXCEPT !.addr = x, !.cap = n] :
        x \in IF env.addrs = {a.addr} THEN env.addrs ELSE env.addrs \ {a.addr}}

\* What Vec::resize(n, ..) does to the allocation: nothing while n words
\* fit; otherwise the capacity grows to the larger of twice the old one and
\* n (and at least min), and the allocator returns a block at any address,
\* the old one included.
Reserve(a, n) ==
    IF n <= a.cap
    THEN {a}
    ELSE {[a EXCEPT !.addr = x, !.cap = Max(Max(2 * a.cap, n), a.min)] :
             x \in env.addrs}

\* get_state_ptr: state.as_mut_ptr() as *mut ().
get_state_ptr(a) == a.addr


---------------------------------------------------------------------------
(* The watcher's events *)

\* self.path: the canonicalized artifact path; OtherPath: another file of
\* the watched parent directory.
LibPath == "lib"
OtherPath == "other"
Paths == {LibPath, OtherPath}

\* notify::DebouncedEvent constructors that carry one path.
Kinds == {"NoticeWrite", "Write", "Create", "Remove", "Chmod"}

Events == [kind : Kinds, path : Paths]

\* A match that reacts to any change in the watched directory.
IsTrigger_any_path(evt, path) == evt.kind \in {"NoticeWrite", "Write", "Create"}

\* A match without the Create arm.
IsTrigger_no_create(evt, path) ==
    /\ evt.kind \in {"NoticeWrite", "Write"}
    /\ evt.path = path

\* The arms of reload()'s match: NoticeWrite | Write | Create bind the path
\* and compare it with self.path; every other event is ignored.
IsTrigger(evt, path) ==
    /\ evt.kind \in {"NoticeWrite", "Write", "Create"}
    /\ evt.path = path

\* should_reload after the `while let Ok(evt) = self.rx.try_recv()` loop
\* has received the events of q.
should_reload_of(q, path) == \E i \in 1..Len(q) : IsTrigger(q[i], path)

\* A loop that leaves at the first event that sets should_reload.
received_of_first_trigger(q, path) ==
    IF should_reload_of(q, path)
    THEN CHOOSE i \in 1..Len(q) :
            /\ IsTrigger(q[i], path)
            /\ \A j \in 1..(i - 1) : ~IsTrigger(q[j], path)
    ELSE Len(q)

\* How many of the events of q the loop receives: it has no break, and runs
\* until try_recv() finds the channel empty.
received_of(q, path) == Len(q)

---------------------------------------------------------------------------
(* The code of a loaded library, as far as the orchestrator can see it *)

\* What one call of a lifecycle entry does: nothing, one store into its State
\* (which occupies the first `size` bytes of the buffer), or a change of the
\* Host it was handed.
NoEffect == [k |-> "none", off |-> 0, val |-> 0]

LibEffects(size, withHost) ==
    {NoEffect}
    \cup {[k |-> "write", off |-> o, val |-> v] :
             o \in {x \in env.offsets : x < size}, v \in Stamps}
    \cup (IF withHost THEN {[k |-> "host", off |-> 0, val |-> 0]} ELSE {})

ApplyBuf(buf, e) == IF e.k = "write" THEN SetByte(buf, e.off, e.val) ELSE buf

ApplyHost(h, e) == IF e.k = "host" THEN 1 - h ELSE h

\* One call through an ABI table: the entry, the handle the table was
\* resolved from, and whether that handle is open when the call is made.
Call(entry, id, hs) == [entry |-> entry, table |-> id, open |-> id \in hs]

\* The name of the entry called after a load: `reload` in ReloadApi<Host>,
\* `load` in _ReloadApi.
LoadEntry == IF variant = "Reloadable" THEN "reload" ELSE "load"

HasHost == variant = "Reloadable"

---------------------------------------------------------------------------
(* What an operation reports *)

NoObs ==
    [op |-> "none",          \* the public operation
     ret |-> "none",         \* "Ok" | "Err" | "No" | "Yes"
     received |-> 0,         \* reload(): how many events the loop received
     matched |-> 0,          \* reload(): how many of them set should_reload
     should_reload |-> FALSE,\* reload(): the flag after the drain loop
     pathSeen |-> FALSE,     \* reload(): some drained event had self.path
     wasLoaded |-> FALSE,    \* sym.is_some() when the operation began
     attempted |-> FALSE,    \* reload_now() ran
     loadOk |-> FALSE,       \* AppSym::new succeeded
     oldId |-> 0,            \* the handle of the table loaded at the start
     oldSize |-> 0,          \* ... and its size()
     newId |-> 0,            \* the handle opened by the operation
     newSize |-> 0,          \* ... and its table's size()
     bufUnload |-> <<>>,     \* the buffer when `unload` returned
     bufLoad |-> <<>>,       \* the buffer handed to `reload`/`load`/`init`
     ptrUnload |-> NoAddr,   \* the state pointer handed to `unload`
     ptrLoad |-> NoAddr,     \* the state pointer handed to `reload`/`load`/`init`
     ptrUpdate |-> NoAddr,   \* the state pointer handed to `update`
     verdict |-> "none",     \* what the `update` entry returned
     logStart |-> 0,         \* Len(log) when the operation began
     step |-> "none"]        \* new(): the step that failed

\* A caller that is not inside reload().  pc is "idle", "drain" (in the
\* loop of try_recv) or "load" (the loop is over, reload_now() is about to
\* run); should_reload is the local flag; received, matched and pathSeen
\* count what the loop has received.  The other fields are history: sent
\* and taken are the events the worker has sent and the loop has received,
\* in order; during counts the events sent while the call runs; owed tells
\* where the caller was ("idle", "drain", "load") when the oldest relevant
\* event was sent after which no reload_now() has started, or "none"; due
\* tells that the call began with such an event owed; handled is what was
\* owed when the call started its reload_now().
NoCall ==
    [pc |-> "idle", should_reload |-> FALSE, received |-> 0, matched |-> 0,
     pathSeen |-> FALSE, sent |-> <<>>, taken |-> <<>>, during |-> 0,
     owed |-> "none", due |-> FALSE, handled |-> "none"]

\* The call history an operation appends to: all of it, or, where the
\* environment follows a caller that never stops, the empty history (log then
\* holds the calls of the last operation only).
History == IF env.keepLog THEN log ELSE <<>>

\* The calls the last operation made.
OpCalls == SubSeq(log, obs.logStart + 1, Len(log))

\* The entries of a sequence of calls.
EntriesOf(calls) == [i \in 1..Len(calls) |-> calls[i].entry]


---------------------------------------------------------------------------
(* Construction *)

\* The state before new() is called, in environment e.
InitIn(e) ==
    /\ env = e
    /\ variant \in {"Reloadable", "App"}
    /\ life = "start"
    /\ disk \in {Bad} \cup {Lib(s) : s \in e.sizes}
    /\ queue = <<>>
    /\ sym = None
    /\ handles = {}
    /\ nextId = 1
    /\ state = <<>>
    /\ alloc \in {[NoAlloc(m) EXCEPT !.checked = c] :
                    m \in e.minCaps, c \in e.checks}
    /\ host = 0
    /\ log = <<>>
    /\ obs = NoObs
    /\ call = NoCall

\* Spec follows the library code: artifacts of three sizes whose entries
\* write into their State, and a watcher that reports writes.
LifeEnv ==
    [sizes |-> {4, 8, 16},
     offsets |-> {0, 4, 8},
     events |-> {[kind |-> "Write", path |-> LibPath]},
     maxQueue |-> LifeQueue,
     maxLog |-> MaxLog,
     keepLog |-> TRUE,
     addrs |-> {1},
     minCaps |-> {1},
     checks |-> {FALSE}]

\* SpecWatch follows the watcher: every kind of event on both paths, and
\* artifacts of one size whose entries leave their State alone.
WatchEnv ==
    [sizes |-> {8},
     offsets |-> {},
     events |-> Events,
     maxQueue |-> MaxQueue,
     maxLog |-> WatchLog,
     keepLog |-> TRUE,
     addrs |-> {1},
     minCaps |-> {1},
     checks |-> {FALSE}]

Init == InitIn(LifeEnv)

InitWatch == InitIn(WatchEnv)

\* The fallible steps of new() after AppSym::new: notify::watcher(..)?,
\* new_path.parent().unwrap() (which panics), watcher.watch(..)?,
\* new_path.canonicalize()?.
NewSteps == {"watcher", "parent", "watch", "canonicalize"}

\* A new() that calls init as soon as the library is open.
new_failed_calls_init_first(id, hs) == <<Call("size", id, hs), Call("init", id, hs)>>

\* The calls new() has made when one of NewSteps fails: size() alone.
new_failed_calls(id, hs) == <<Call("size", id, hs)>>

\* The lifecycle entries new() calls on the table it loaded, after
\* realloc_buffer(size).
new_calls(id, hs) == <<Call("init", id, hs)>>

\* A destructor that leaves the library without its deinit.
drop_calls_none(s, hs) == <<>>

\* Drop: the entry called by drop(&mut self).
drop_calls(s, hs) == IF s # None THEN <<Call("deinit", s.id, hs)>> ELSE <<>>

\* Reloadable::new / App::new.  `fail` is the step that fails, or "none".
new ==
    /\ life = "start"
    /\ \/ \* AppSym::new(&path)? fails: nothing was loaded, nothing called.
          /\ disk = Bad
          /\ life' = "failed"
          /\ obs' = [NoObs EXCEPT !.op = "new", !.ret = "Err",
                                  !.step = "AppSym::new"]
          /\ log' = History
          /\ UNCHANGED <<call, env, variant, disk, queue, sym, handles, nextId, state,
                         alloc, host>>
       \/ \* A later `?` fails: sym is dropped, size() was called.
          /\ disk # Bad
          /\ \E fail \in NewSteps :
                /\ life' = "failed"
                /\ log' = History \o new_failed_calls(nextId, handles \cup {nextId})
                /\ nextId' = nextId + 1
                /\ obs' = [NoObs EXCEPT !.op = "new",
                                        !.ret = IF fail = "parent" THEN "Panic"
                                                                   ELSE "Err",
                                        !.loadOk = TRUE, !.newId = nextId,
                                        !.newSize = disk.size, !.step = fail]
          /\ UNCHANGED <<call, env, variant, disk, queue, sym, handles, state, alloc,
                         host>>
       \/ \* app.realloc_buffer(size) panics on `size + 7`: app, which holds
          \* the table, is dropped while the panic unwinds, so Drop calls
          \* `deinit` of a table whose `init` was never called.
          /\ disk # Bad
          /\ overflow_panics(alloc, disk.size)
          /\ \E e \in LibEffects(disk.size, HasHost) :
                LET id == nextId
                    hs == handles \cup {id}
                IN  /\ life' = "panicked"
                    /\ nextId' = id + 1
                    /\ log' = Append(History, Call("size", id, hs))
                                  \o drop_calls(Some(id, disk.size), hs)
                    /\ state' = ApplyBuf(state, e)
                    /\ host' = ApplyHost(host, e)
                    /\ obs' = [NoObs EXCEPT !.op = "new", !.ret = "Panic",
                                            !.loadOk = TRUE, !.newId = id,
                                            !.newSize = disk.size,
                                            !.step = "realloc_buffer"]
          /\ UNCHANGED <<call, env, variant, disk, queue, sym, handles, alloc>>
       \/ \* Every step succeeds.
          /\ disk # Bad
          /\ ~overflow_panics(alloc, disk.size)
          /\ \E e \in LibEffects(disk.size, HasHost),
                al \in Reserve(alloc, alloc_size_u64s(disk.size)) :
                LET id == nextId
                    hs == handles \cup {id}
                    buf == realloc_buffer(state, disk.size)
                IN  /\ life' = "alive"
                    /\ alloc' = [al EXCEPT !.init = get_state_ptr(al)]
                    /\ sym' = Some(id, disk.size)
                    /\ handles' = hs
                    /\ nextId' = id + 1
                    /\ log' = Append(History, Call("size", id, hs)) \o new_calls(id, hs)
                    /\ state' = ApplyBuf(buf, e)
                    /\ host' = ApplyHost(host, e)
                    /\ obs' = [NoObs EXCEPT !.op = "new", !.ret = "Ok",
                                            !.loadOk = TRUE, !.newId = id,
                                            !.newSize = disk.size,
                                            !.bufLoad = buf,
                                            !.ptrLoad = get_state_ptr(al)]
          /\ UNCHANGED <<call, env, variant, disk, queue>>

---------------------------------------------------------------------------
(* reload_now and reload *)

\* A reload_now() that calls unload again on the way out of a failed load.
unload_calls_twice(s, hs) ==
    IF s # None THEN <<Call("unload", s.id, hs), Call("unload", s.id, hs)>> ELSE <<>>

\* A reload_now() that forgets the old table's unload.
unload_calls_skipped(s, hs) == <<>>

\* A reload_now() that drops the old AppSym before it calls its unload.
unload_calls_after_drop(s, hs) ==
    IF s # None THEN <<Call("unload", s.id, hs \ {s.id})>> ELSE <<>>

\* reload_now, lines 344-346: unload is called on the loaded table, if any.
unload_calls(s, hs) == IF s # None THEN <<Call("unload", s.id, hs)>> ELSE <<>>

\* A reload_now() that treats every load like the first one.
load_calls_with_init(id, hs) == <<Call("init", id, hs), Call(LoadEntry, id, hs)>>

\* A reload_now() that calls the entry again after installing the table.
load_calls_twice(id, hs) == <<Call(LoadEntry, id, hs), Call(LoadEntry, id, hs)>>

\* reload_now, line 351: the entry called on the table just loaded.
load_calls(id, hs) == <<Call(LoadEntry, id, hs)>>

\* A reload_now() that leaves the old AppSym in place until a new one is
\* loaded.
sym_after_unload_kept(s) == s

\* reload_now, line 347: self.sym = None, whatever was loaded.
sym_after_unload(s) == None

\* reload_now(): eU is what `unload` does, eL what `reload`/`load` does.
\* `base` is the report of the calling operation.
reload_now(base, eU, eL) ==
    LET wasLoaded == sym # None
        bufU  == IF wasLoaded THEN ApplyBuf(state, eU) ELSE state
        hostU == IF wasLoaded THEN ApplyHost(host, eU) ELSE host
        logU  == History \o unload_calls(sym, handles)
        \* self.sym = None: the AppSym and its Library are dropped.
        hsU   == IF wasLoaded THEN handles \ {sym.id} ELSE handles
        seen  == [base EXCEPT !.attempted = TRUE, !.wasLoaded = wasLoaded,
                              !.oldId = sym.id, !.oldSize = sym.size,
                              !.bufUnload = bufU, !.logStart = Len(History),
                              !.ptrUnload = IF wasLoaded THEN get_state_ptr(alloc)
                                                         ELSE NoAddr]
    IN  IF disk = Bad
        THEN \* AppSym::new(&self.path)? returns the error.
             /\ sym' = sym_after_unload(sym)
             /\ handles' = hsU
             /\ nextId' = nextId
             /\ state' = bufU
             /\ host' = hostU
             /\ log' = logU
             /\ alloc' = alloc
             /\ life' = life
             /\ obs' = [seen EXCEPT !.ret = "Err"]
        ELSE IF overflow_panics(alloc, disk.size)
        THEN \* self.realloc_buffer(sym.size()) panics on `size + 7`: the new
             \* sym is dropped while the panic unwinds, self.sym stays None.
             /\ sym' = sym_after_unload(sym)
             /\ handles' = hsU
             /\ nextId' = nextId + 1
             /\ state' = bufU
             /\ host' = hostU
             /\ log' = logU \o <<Call("size", nextId, hsU \cup {nextId})>>
             /\ alloc' = alloc
             /\ life' = "panicked"
             /\ obs' = [seen EXCEPT !.ret = "Panic", !.loadOk = TRUE,
                                    !.newId = nextId, !.newSize = disk.size,
                                    !.step = "realloc_buffer"]
        ELSE LET id   == nextId
                 hsL  == hsU \cup {id}
                 bufR == realloc_buffer(bufU, disk.size)
             IN  /\ sym' = Some(id, disk.size)
                 /\ life' = life
                 /\ handles' = hsL
                 /\ nextId' = id + 1
                 /\ state' = ApplyBuf(bufR, eL)
                 /\ host' = ApplyHost(hostU, eL)
                 /\ log' = (logU \o <<Call("size", id, hsL)>>) \o load_calls(id, hsL)
                 /\ \E al \in Reserve(alloc, alloc_size_u64s(disk.size)) :
                       /\ alloc' = al
                       /\ obs' = [seen EXCEPT !.ret = "Ok", !.loadOk = TRUE,
                                              !.newId = id, !.newSize = disk.size,
                                              !.bufLoad = bufR,
                                              !.ptrLoad = get_state_ptr(al)]

\* The effects the library code may have in a reload_now() begun now.
UnloadEffects == IF sym # None THEN LibEffects(sym.size, HasHost) ELSE {NoEffect}
LoadEffects == IF disk # Bad THEN LibEffects(disk.size, HasHost) ELSE {NoEffect}

\* pub fn reload_now(&mut self)
ReloadNow ==
    /\ life = "alive"
    /\ \E eU \in UnloadEffects, eL \in LoadEffects :
          reload_now([NoObs EXCEPT !.op = "reload_now"], eU, eL)
    /\ Len(log') <= env.maxLog
    /\ UNCHANGED <<call, env, variant, disk, queue>>

\* A reload() that loads only when an event asked for it, in both variants.
calls_reload_now_flag_only(flag) == flag

\* The condition under which reload() calls reload_now():
\* Reloadable: `should_reload || self.sym.is_none()`; App: `should_reload`.
calls_reload_now(flag) ==
    IF variant = "Reloadable" THEN flag \/ sym = None ELSE flag

\* pub fn reload(&mut self): the loop receives every event of the channel.
Reload ==
    /\ life = "alive"
    /\ LET n == received_of(queue, LibPath)
           got == SubSeq(queue, 1, n)
           flag == should_reload_of(got, LibPath)
           base == [NoObs EXCEPT !.op = "reload", !.received = n,
                       !.matched = Cardinality({i \in 1..n : IsTrigger(got[i], LibPath)}),
                       !.should_reload = flag,
                       !.pathSeen = \E i \in 1..Len(queue) : queue[i].path = LibPath,
                       !.wasLoaded = sym # None, !.oldId = sym.id,
                       !.oldSize = sym.size, !.logStart = Len(History)]
       IN  IF calls_reload_now(flag)
           THEN \E eU \in UnloadEffects, eL \in LoadEffects :
                   reload_now(base, eU, eL)
           ELSE /\ obs' = [base EXCEPT !.ret = "Ok"]
                /\ log' = History
                /\ UNCHANGED <<life, sym, handles, nextId, state, alloc, host>>
    /\ queue' = SubSeq(queue, received_of(queue, LibPath) + 1, Len(queue))
    /\ Len(log') <= env.maxLog
    /\ UNCHANGED <<call, env, variant, disk>>


---------------------------------------------------------------------------
(* update, the host accessor and the destructor *)

\* An update() that keeps calling the table it saw last.
update_calls_stale(s, hs) == <<Call("update", IF s # None THEN s.id ELSE nextId - 1, hs)>>

\* An update() that keeps the table new() loaded.
update_calls_first_table(s, hs) ==
    IF s # None THEN <<Call("update", 1, hs)>> ELSE <<>>

\* update(): the entry called when a library is loaded.
update_calls(s, hs) == IF s # None THEN <<Call("update", s.id, hs)>> ELSE <<>>

\* The verdicts update() may return: the entry's own when a library is
\* loaded, ShouldQuit::No otherwise.
update_verdicts(s) == IF s # None THEN {"No", "Yes"} ELSE {"No"}

\* What update() returns when the entry (if called) returned v: the value of
\* the call expression, or ShouldQuit::No from the else arm.
update_returns(s, v) == IF s # None THEN v ELSE "No"

\* pub fn update(&mut self) -> ShouldQuit
Update ==
    /\ life = "alive"
    /\ \E e \in UnloadEffects, v \in update_verdicts(sym) :
          /\ log' = History \o update_calls(sym, handles)
          /\ state' = IF sym # None THEN ApplyBuf(state, e) ELSE state
          /\ host' = IF sym # None THEN ApplyHost(host, e) ELSE host
          /\ obs' = [NoObs EXCEPT !.op = "update",
                                  !.ret = update_returns(sym, v),
                                  !.verdict = IF sym # None THEN v ELSE "none",
                                  !.ptrUpdate = IF sym # None
                                                THEN get_state_ptr(alloc)
                                                ELSE NoAddr,
                                  !.wasLoaded = sym # None, !.oldId = sym.id,
                                  !.oldSize = sym.size, !.logStart = Len(History)]
    /\ Len(log') <= env.maxLog
    /\ UNCHANGED <<call, env, variant, life, disk, queue, sym, handles, nextId, alloc>>

\* pub fn host_mut(&mut self) -> &mut Host: the caller changes the host
\* value between two ticks.
HostMut ==
    /\ life = "alive"
    /\ variant = "Reloadable"
    /\ host' = 1 - host
    /\ obs' = [NoObs EXCEPT !.op = "host_mut", !.wasLoaded = sym # None,
                            !.oldId = sym.id, !.oldSize = sym.size,
                            !.logStart = Len(History)]
    /\ log' = History
    /\ UNCHANGED <<call, env, variant, life, disk, queue, sym, handles, nextId, state,
                   alloc>>

\* impl Drop: drop() runs, then the fields are dropped (sym closes its
\* Library, the watcher stops, the receiver goes away).
Drop ==
    /\ life = "alive"
    /\ \E e \in UnloadEffects :
          /\ log' = History \o drop_calls(sym, handles)
          /\ state' = IF sym # None THEN ApplyBuf(state, e) ELSE state
          /\ host' = IF sym # None THEN ApplyHost(host, e) ELSE host
          /\ obs' = [NoObs EXCEPT !.op = "drop", !.wasLoaded = sym # None,
                                  !.oldId = sym.id, !.oldSize = sym.size,
                                  !.logStart = Len(History)]
    /\ life' = "dropped"
    /\ sym' = None
    /\ handles' = {}
    /\ queue' = <<>>
    /\ UNCHANGED <<call, env, variant, disk, nextId, alloc>>

---------------------------------------------------------------------------
(* The environment *)

\* The build (or anything else) replaces the artifact at the path.
Build ==
    /\ \E d \in Artifacts : d # disk /\ disk' = d
    /\ UNCHANGED <<call, env, variant, life, queue, sym, handles, nextId, state, alloc, host,
                   log, obs, env>>

\* The watcher's worker sends an event into the channel.
Notify ==
    /\ life = "alive"
    /\ Len(queue) < env.maxQueue
    /\ \E evt \in env.events : queue' = Append(queue, evt)
    /\ UNCHANGED <<call, env, variant, life, disk, sym, handles, nextId, state, alloc, host,
                   log, obs, env>>

Next ==
    \/ new
    \/ Reload
    \/ ReloadNow
    \/ Update
    \/ HostMut
    \/ Drop
    \/ Build
    \/ Notify

Spec == Init /\ [][Next]_vars

SpecWatch == InitWatch /\ [][Next]_vars

\* SpecPoll follows a caller that never stops: the loop of main() calls
\* update() and reload() forever, while the build replaces the artifact and
\* the watcher reports it for a while.  The history keeps the calls of the
\* last operation only.
PollEnv ==
    [sizes |-> {8},
     offsets |-> {},
     events |-> [kind : {"Write", "Remove"}, path : {LibPath}],
     maxQueue |-> LifeQueue,
     maxLog |-> MaxLog,
     keepLog |-> FALSE,
     addrs |-> {1},
     minCaps |-> {1},
     checks |-> {FALSE}]

InitPoll == InitIn(PollEnv)

\* SpecAddr follows the allocation of the buffer: the allocator may move a
\* block that grows, and the build's Vec may round a small capacity up.
AddrEnv ==
    [sizes |-> {8, 16},
     offsets |-> {0},
     events |-> {[kind |-> "Write", path |-> LibPath]},
     maxQueue |-> LifeQueue,
     maxLog |-> MaxLog,
     keepLog |-> TRUE,
     addrs |-> {1, 2},
     minCaps |-> {1, 4},
     checks |-> {FALSE}]

InitAddr == InitIn(AddrEnv)

SpecAddr == InitAddr /\ [][Next]_vars

\* SpecWide follows the arithmetic of the resize: a table may declare the
\* largest usize, and the build may or may not check additions for
\* overflow.  The entries leave their State alone (a write through the
\* pointer of a buffer shorter than the table expects has no defined
\* outcome).
WideEnv ==
    [sizes |-> {8, UsizeMod - 1},
     offsets |-> {},
     events |-> {[kind |-> "Write", path |-> LibPath]},
     maxQueue |-> LifeQueue,
     maxLog |-> WatchLog,
     keepLog |-> TRUE,
     addrs |-> {1},
     minCaps |-> {1},
     checks |-> {FALSE, TRUE}]

InitWide == InitIn(WideEnv)

SpecWide == InitWide /\ [][Next]_vars

---------------------------------------------------------------------------
(* reload() step by step, beside the watcher's worker *)

\* A blocking receive: it never reports an empty channel.
try_recv_empty_blocking(q) == FALSE

\* self.rx.try_recv() returns Err(Empty): nothing is in the channel.
try_recv_empty(q) == q = <<>>

\* self.rx.try_recv() returns Ok(..): an event is in the channel.
try_recv_ok(q) == q # <<>>

\* A receive that takes the newest event of the channel.
try_recv_evt_newest(q) == q[Len(q)]

\* self.rx.try_recv() returns Ok(evt): the oldest event of the channel.
try_recv_evt(q) == Head(q)

\* reload(), line 312: `let mut should_reload = false`, then the loop.
ReloadBegin ==
    /\ life = "alive"
    /\ call.pc = "idle"
    /\ call' = [call EXCEPT !.pc = "drain", !.should_reload = FALSE,
                            !.received = 0, !.matched = 0, !.pathSeen = FALSE,
                            !.during = 0, !.due = call.owed # "none",
                            !.handled = "none"]
    /\ UNCHANGED <<env, variant, life, disk, queue, sym, handles, nextId, state,
                   alloc, host, log, obs>>

\* reload(), lines 313-323: try_recv() returns Ok(evt) and the match sets
\* the flag for a NoticeWrite, Write or Create of self.path.
ReloadRecv ==
    /\ life = "alive"
    /\ call.pc = "drain"
    /\ try_recv_ok(queue)
    /\ LET evt == try_recv_evt(queue)
       IN  call' = [call EXCEPT
                       !.should_reload = @ \/ IsTrigger(evt, LibPath),
                       !.received = @ + 1,
                       !.matched = IF IsTrigger(evt, LibPath) THEN @ + 1 ELSE @,
                       !.pathSeen = @ \/ evt.path = LibPath,
                       !.taken = Append(@, evt)]
    /\ queue' = Tail(queue)
    /\ UNCHANGED <<env, variant, life, disk, sym, handles, nextId, state, alloc,
                   host, log, obs>>

\* What reload() reports when its loop is over.
DrainBase ==
    [NoObs EXCEPT !.op = "reload", !.received = call.received,
                  !.matched = call.matched,
                  !.should_reload = call.should_reload,
                  !.pathSeen = call.pathSeen,
                  !.wasLoaded = sym # None, !.oldId = sym.id,
                  !.oldSize = sym.size, !.logStart = Len(History)]

\* reload(), lines 313 and 327-331: try_recv() returns Err, the loop ends;
\* reload() goes on to reload_now(), or returns Ok(()).
ReloadExit ==
    /\ life = "alive"
    /\ call.pc = "drain"
    /\ try_recv_empty(queue)
    /\ IF calls_reload_now(call.should_reload)
       THEN /\ call' = [call EXCEPT !.pc = "load", !.owed = "none",
                                    !.due = FALSE, !.handled = call.owed]
            /\ UNCHANGED <<log, obs>>
       ELSE /\ call' = [call EXCEPT !.pc = "idle"]
            /\ obs' = [DrainBase EXCEPT !.ret = "Ok"]
            /\ log' = History
    /\ UNCHANGED <<env, variant, life, disk, queue, sym, handles, nextId, state,
                   alloc, host>>

\* reload(), line 328: self.reload_now() runs and reload() returns its
\* result.
ReloadLoad ==
    /\ life = "alive"
    /\ call.pc = "load"
    /\ \E eU \in UnloadEffects, eL \in LoadEffects :
          reload_now(DrainBase, eU, eL)
    /\ call' = [call EXCEPT !.pc = "idle"]
    /\ Len(log') <= env.maxLog
    /\ UNCHANGED <<env, variant, disk, queue>>

\* update(), called between two calls of reload().
DrainUpdate == call.pc = "idle" /\ Update

\* The events whose loss would lose a change of the artifact: a create, a
\* write or a notice of a write, at the path of the artifact.
Relevant(evt) ==
    /\ evt.path = LibPath
    /\ evt.kind \in {"Create", "Write", "NoticeWrite"}

\* The watcher's worker sends an event, wherever the caller is.
DrainNotify ==
    /\ life = "alive"
    /\ Len(call.sent) < MaxEvents
    /\ \E evt \in env.events :
          /\ queue' = Append(queue, evt)
          /\ call' = [call EXCEPT
                          !.sent = Append(@, evt),
                          !.during = IF call.pc = "idle" THEN @ ELSE @ + 1,
                          !.owed = IF @ = "none" /\ Relevant(evt)
                                   THEN call.pc ELSE @]
    /\ UNCHANGED <<env, variant, life, disk, sym, handles, nextId, state, alloc,
                   host, log, obs>>

\* SpecDrain follows one caller, whose thread keeps running while it is
\* inside reload(), beside a worker that sends finitely many events.
DrainEnv ==
    [sizes |-> {8},
     offsets |-> {},
     events |-> {[kind |-> "Write", path |-> LibPath],
                 [kind |-> "Remove", path |-> LibPath],
                 [kind |-> "Write", path |-> OtherPath]},
     maxQueue |-> MaxEvents,
     maxLog |-> MaxLog,
     keepLog |-> FALSE,
     addrs |-> {1},
     minCaps |-> {1},
     checks |-> {FALSE}]

InitDrain == InitIn(DrainEnv)

NextDrain ==
    \/ new
    \/ ReloadBegin
    \/ ReloadRecv
    \/ ReloadExit
    \/ ReloadLoad
    \/ DrainUpdate
    \/ Build
    \/ DrainNotify

SpecDrain ==
    /\ InitDrain
    /\ [][NextDrain]_vars
    /\ WF_vars(ReloadRecv)
    /\ WF_vars(ReloadExit)
    /\ WF_vars(ReloadLoad)

\* The watcher sends an event, until MaxLoads handles have been opened.
PollNotify == nextId <= MaxLoads /\ Notify

NextPoll ==
    \/ new
    \/ Reload
    \/ Update
    \/ Build
    \/ PollNotify

\* `loop { if app.update() == ShouldQuit::Yes { break; } sleep; app.reload() }`:
\* as long as the loop runs, an update() and a reload() that are due are made.
SpecPoll == InitPoll /\ [][NextPoll]_vars /\ WF_vars(Reload) /\ WF_vars(Update)


---------------------------------------------------------------------------
(* Reading the call history *)

\* The entries init, reload/load, update, unload, deinit: every entry of the
\* table but size.
LifecycleEntries == {"init", "reload", "load", "update", "unload", "deinit"}

IsLifecycle(c) == c.entry \in LifecycleEntries

\* The lifecycle calls of a sequence of calls, in order.
Lifecycle(calls) == SelectSeq(calls, IsLifecycle)

\* The positions of the history at which `entry` was called.
CallsOf(entry) == {i \in 1..Len(log) : log[i].entry = entry}

\* A reload_now() (called directly or by reload()) that found a library
\* loaded and loaded the new artifact.
ReloadedOk == obs.attempted /\ obs.wasLoaded /\ obs.loadOk

\* A reload_now() that found a library loaded and could not open the new one.
ReloadFailed == obs.attempted /\ obs.wasLoaded /\ ~obs.loadOk

---------------------------------------------------------------------------
(* C1 *)

\* C1: once construction has succeeded, `init` has been called exactly once
\* whatever update, reload, reload_now and drop calls followed, and every
\* call of update, reload/load, unload or deinit comes after it in the
\* history: no reload path, recovery from Unloaded included, calls it again.
C1_InitOnceAndFirst ==
    life \in {"alive", "dropped"} =>
        /\ Cardinality(CallsOf("init")) = 1
        /\ \A i \in 1..Len(log) :
              log[i].entry \in LifecycleEntries \ {"init"} =>
                  \E j \in 1..(i - 1) : log[j].entry = "init"

\* A library was loaded again after a failed reload had left nothing loaded,
\* with an update somewhere in the history.
C1_Witness ==
    /\ life = "alive"
    /\ obs.attempted /\ ~obs.wasLoaded /\ obs.loadOk
    /\ CallsOf("unload") # {}
    /\ CallsOf("update") # {}


---------------------------------------------------------------------------
(* C2 *)

\* C2: in a reload that found a library loaded and loaded the new artifact,
\* the lifecycle calls are exactly `unload` on the outgoing table followed at
\* once by `reload`/`load` on the incoming one; and over the whole history
\* the lifecycle call that follows an `unload` is always the `reload`/`load`
\* of a newer table, with no init, update, unload or deinit in between.
C2_UnloadThenLoad ==
    /\ ReloadedOk =>
          LET calls == Lifecycle(OpCalls)
          IN  /\ EntriesOf(calls) = <<"unload", LoadEntry>>
              /\ calls[1].table = obs.oldId
              /\ calls[2].table = obs.newId
              /\ obs.oldId # obs.newId
    /\ LET all == Lifecycle(log)
       IN  \A i \in 1..(Len(all) - 1) :
              all[i].entry = "unload" =>
                  /\ all[i + 1].entry = LoadEntry
                  /\ all[i + 1].table > all[i].table

\* Two successful reloads in a row.
C2_Witness ==
    /\ ReloadedOk
    /\ Cardinality(CallsOf("unload")) = 2
    /\ Cardinality(CallsOf(LoadEntry)) = 2


---------------------------------------------------------------------------
(* C3, C4 *)

\* Some pending event has the canonical artifact path, whatever its kind.
PathPending == \E i \in 1..Len(queue) : queue[i].path = LibPath

\* Some pending event is a NoticeWrite, Write or Create of the canonical
\* artifact path.
TriggerPending ==
    \E i \in 1..Len(queue) :
        /\ queue[i].kind \in {"NoticeWrite", "Write", "Create"}
        /\ queue[i].path = LibPath

\* The step returns success without a call into a library, a load, or a
\* change of the loaded library, the state buffer or the host.
NothingDone ==
    /\ obs'.ret = "Ok"
    /\ ~obs'.attempted
    /\ UNCHANGED <<sym, handles, nextId, state, alloc, host, log>>

C4_Original ==
    [][Reload => (queue' = <<>> /\ (PathPending => obs'.attempted))]_vars

\* C4, amended: reload() drains the pending events and performs
\* reload_now() if any of them is a NoticeWrite, Write or Create of the
\* canonical artifact path; events of other kinds start no reload.
C4_TriggerReloads ==
    [][Reload => (queue' = <<>> /\ (TriggerPending => obs'.attempted))]_vars

\* A reload() that received two events, found a trigger among them and
\* reloaded the loaded library.
C4_Witness ==
    /\ obs.op = "reload" /\ obs.received = MaxQueue
    /\ obs.should_reload /\ obs.attempted /\ obs.wasLoaded /\ obs.loadOk
    /\ queue = <<>>


---------------------------------------------------------------------------
(* C5, C6, C7, C8 *)

\* C5: when reload_now() finds a library loaded and cannot open the new
\* artifact, then on return the only call it made is one `unload` on the old
\* table (no reload/load, no init, no size), it returned the error, nothing
\* is installed and no handle is open, and the state buffer is, word for
\* word, the buffer `unload` left.
C5_FailedReloadLeavesUnloaded ==
    ReloadFailed =>
        /\ obs.ret = "Err"
        /\ sym = None
        /\ handles = {}
        /\ OpCalls = <<Call("unload", obs.oldId, {obs.oldId})>>
        /\ Cardinality({i \in CallsOf("unload") : log[i].table = obs.oldId}) = 1
        /\ Len(state) = Len(obs.bufUnload)
        /\ state = obs.bufUnload

\* A failed reload whose `unload` wrote into the buffer last.
C5_Witness ==
    /\ ReloadFailed
    /\ obs.ret = "Err"
    /\ obs.oldSize = 16
    /\ Byte(state, 8) = 1
    /\ Byte(state, 0) = 0

\* C6: an update() called while nothing is loaded returns ShouldQuit::No and
\* leaves the call history, the state buffer, the host value, the pending
\* events and the Unloaded status as they were.
C6_UpdateUnloadedIsNoOp ==
    [][(Update /\ sym = None) =>
          /\ obs'.ret = "No"
          /\ sym' = None
          /\ UNCHANGED <<log, state, host, queue, handles, nextId>>]_vars

\* An update() made with nothing loaded, an event pending and a buffer that
\* an earlier table had written.
C6_Witness ==
    /\ obs.op = "update" /\ ~obs.wasLoaded /\ obs.ret = "No"
    /\ sym = None
    /\ queue # <<>>
    /\ CallsOf("unload") # {}
    /\ Byte(state, 0) = 1

\* C7: `deinit` is called by the destructor only: exactly once when a
\* library is loaded at that moment, on the installed table and with its
\* handle open, and not at all when nothing is loaded; it is the last call of
\* the history, and update, reload and reload_now never call it.
C7_DeinitOnDropOnly ==
    /\ life # "dropped" => CallsOf("deinit") = {}
    /\ life = "dropped" =>
          /\ obs.op = "drop"
          /\ obs.wasLoaded =>
                /\ CallsOf("deinit") = {Len(log)}
                /\ log[Len(log)] = Call("deinit", obs.oldId, {obs.oldId})
                /\ \E i \in 1..Len(log) :
                      /\ log[i].entry \in {"init", LoadEntry}
                      /\ log[i].table = obs.oldId
                /\ \A i \in 1..Len(log) : log[i].table <= obs.oldId
          /\ ~obs.wasLoaded => CallsOf("deinit") = {}

\* The orchestrator was dropped with a reloaded library installed.
C7_Witness ==
    /\ life = "dropped"
    /\ obs.wasLoaded
    /\ obs.oldId > 1
    /\ CallsOf("deinit") # {}

\* C8 as stated, for Reloadable: every table that was loaded and installed
\* has had its `reload` entry called, the table loaded by new() included.
C8_ReloadOnEveryLoad ==
    (variant = "Reloadable" /\ life = "alive") =>
        \A i \in 1..Len(log) :
            log[i].entry \in {"init", "update", "unload"} =>
                \E j \in 1..Len(log) :
                    /\ log[j].entry = "reload"
                    /\ log[j].table = log[i].table


---------------------------------------------------------------------------
(* C9, C10 *)

\* A reload that replaced a loaded table by one declaring more, or fewer,
\* bytes.
Grown == ReloadedOk /\ obs.newSize > obs.oldSize
Shrunk == ReloadedOk /\ obs.newSize < obs.oldSize

\* Buffers a and b hold the same byte at offset o.
SameByte(a, b, o) == Held(a, o) /\ Held(b, o) /\ Byte(a, o) = Byte(b, o)

\* C9: in a reload that increases the declared size from old_size to
\* new_size, every byte at an offset in [0, old_size) of the buffer handed to
\* the incoming `reload`/`load` is the byte the buffer held at that offset
\* when the outgoing `unload` returned.
C9_GrowthKeepsOldBytes ==
    Grown => \A o \in 0..(obs.oldSize - 1) : SameByte(obs.bufLoad, obs.bufUnload, o)

\* A reload from 8 to 16 bytes that carried written bytes over.
C9_Witness ==
    /\ Grown
    /\ obs.oldSize = 8 /\ obs.newSize = 16
    /\ Byte(obs.bufUnload, 0) = 1 /\ Byte(obs.bufUnload, 4) = 1
    /\ Len(obs.bufLoad) = 2

\* The byte at offset o is gone from the buffer: the buffer does not reach
\* it, or holds a zero there.
Discarded(buf, o) == ~Held(buf, o) \/ Byte(buf, o) = 0

\* C10 as stated: in a reload that decreases the declared size from S1 to
\* S2, for all byte counts, the bytes at [0, S2) are preserved and the bytes
\* at [S2, S1) are discarded: the buffer handed to the incoming table no
\* longer holds them.
C10_Original ==
    Shrunk =>
        /\ \A o \in 0..(obs.newSize - 1) : SameByte(obs.bufLoad, obs.bufUnload, o)
        /\ \A o \in obs.newSize..(obs.oldSize - 1) : Discarded(obs.bufLoad, o)

\* C10, amended: a reload that decreases the declared size from S1 to S2
\* leaves a buffer of ceil(S2 / 8) words: the bytes at [0, S2) are
\* preserved; of the bytes at [S2, S1), those at or beyond 8 * ceil(S2 / 8)
\* are dropped from the buffer, and those below it stay in the buffer with
\* the values they had; and a byte that a reload adds to the buffer is zero,
\* so that a dropped byte never comes back with its old value.
C10_ShrinkDropsWholeWords ==
    /\ Shrunk =>
          LET kept == 8 * ((obs.newSize + 7) \div 8)
          IN  /\ ByteLen(obs.bufLoad) = kept
              /\ \A o \in 0..(obs.newSize - 1) :
                    SameByte(obs.bufLoad, obs.bufUnload, o)
              /\ \A o \in obs.newSize..(obs.oldSize - 1) :
                    IF o < kept
                    THEN SameByte(obs.bufLoad, obs.bufUnload, o)
                    ELSE ~Held(obs.bufLoad, o)
    /\ (obs.attempted /\ obs.loadOk) =>
          \A o \in 0..(ByteLen(obs.bufLoad) - 1) :
              ~Held(obs.bufUnload, o) => Byte(obs.bufLoad, o) = 0

\* A reload from 16 to 4 bytes: the written byte at offset 8 is dropped with
\* its word, the one at offset 4 stays in the buffer.
C10_Witness ==
    /\ Shrunk
    /\ obs.oldSize = 16 /\ obs.newSize = 4
    /\ Byte(obs.bufUnload, 4) = 1 /\ Byte(obs.bufUnload, 8) = 1
    /\ Len(obs.bufLoad) = 1
    /\ Byte(obs.bufLoad, 4) = 1

---------------------------------------------------------------------------
(* C11 *)

\* A reload_now() (called directly or by reload()) that loaded the artifact,
\* whether or not a library was loaded before.
LoadedOk == obs.attempted /\ obs.loadOk

\* The number of bytes in the words realloc_buffer keeps for `size` bytes.
WordBytes(size) == 8 * ((size + 7) \div 8)

\* C11 as stated: in a reload that increases the declared size, every byte
\* at an offset in [previous declared size, new declared size) of the buffer
\* handed to the incoming `reload`/`load` is zero.
C11_Original ==
    Grown =>
        \A o \in obs.oldSize..(obs.newSize - 1) :
            Held(obs.bufLoad, o) /\ Byte(obs.bufLoad, o) = 0

\* C11, amended: the buffer is extended in whole 8-byte words.  In a reload
\* from declared size S1 to a larger S2 the buffer held 8 * ceil(S1 / 8)
\* bytes when `unload` returned; every byte of [S1, S2) at or beyond that
\* length is zero when `reload`/`load` is called, and every byte of [S1, S2)
\* below it is the byte the buffer held there, which an earlier, larger
\* table may have written.  The same holds of a load made with nothing
\* loaded: a byte the buffer gains is zero, a byte it held is unchanged.
C11_ZeroFillBeyondWords ==
    /\ Grown =>
          /\ ByteLen(obs.bufUnload) = WordBytes(obs.oldSize)
          /\ \A o \in obs.oldSize..(obs.newSize - 1) :
                /\ Held(obs.bufLoad, o)
                /\ IF o < WordBytes(obs.oldSize)
                   THEN Byte(obs.bufLoad, o) = Byte(obs.bufUnload, o)
                   ELSE Byte(obs.bufLoad, o) = 0
    /\ LoadedOk =>
          \A o \in 0..(obs.newSize - 1) :
              /\ Held(obs.bufLoad, o)
              /\ IF Held(obs.bufUnload, o)
                 THEN Byte(obs.bufLoad, o) = Byte(obs.bufUnload, o)
                 ELSE Byte(obs.bufLoad, o) = 0

\* A reload from 4 to 16 bytes after one from 8 to 4: the byte the first
\* table wrote at offset 4 is still set, the added word is zero.
C11_Witness ==
    /\ Grown
    /\ obs.oldSize = 4 /\ obs.newSize = 16
    /\ Cardinality(CallsOf(LoadEntry)) = 2
    /\ Byte(obs.bufLoad, 4) = 1
    /\ obs.bufLoad[2] = ZeroWord

---------------------------------------------------------------------------
(* C12 *)

\* The tables whose handle has been closed: a call was made through them
\* and their Library is no longer open.
ClosedTables == {log[i].table : i \in 1..Len(log)} \ handles

\* C12: every call of an entry (size, init, reload/load, update, unload,
\* deinit) was made while the handle its table was resolved from was open;
\* the calls move from table to table in the order the handles were opened
\* and never return to an earlier one, so that no entry of a table is called
\* once reload_now() has dropped its handle, be it by update, by a later
\* reload_now or by the destructor; and the installed table is the only one
\* whose handle is open.
C12_NoCallAfterHandleDropped ==
    /\ \A i \in 1..Len(log) : log[i].open
    /\ \A i \in 1..Len(log) : \A j \in i..Len(log) :
          /\ log[i].table <= log[j].table
          /\ (log[i].entry = "unload" /\ j > i) => log[j].table > log[i].table
    /\ sym # None => handles = {sym.id}
    /\ sym = None => handles = {}

\* reload_now() dropped the first handle; the second table served an update
\* and the destructor, and no call went back to the first.
C12_Witness ==
    /\ life = "dropped"
    /\ obs.wasLoaded /\ obs.oldId = 2
    /\ ClosedTables = {1, 2}
    /\ \E i \in CallsOf("unload") : log[i].table = 1
    /\ \E i \in CallsOf("update") : log[i].table = 2
    /\ \E i \in CallsOf("deinit") : log[i].table = 2

---------------------------------------------------------------------------
(* C13 *)

\* The orchestrator exists and nothing is loaded: a reload has failed.
Unloaded == life = "alive" /\ sym = None

\* C13 as stated, for both variants: whenever nothing is loaded after a
\* failed reload and the artifact is loadable from then on, the caller's
\* reload() calls alone load it eventually, whether or not the watcher
\* delivers another event.
C13_PollingRecovers == []((Unloaded /\ [](disk.ok)) => <>(sym # None))

\* C13, for Reloadable alone: polling recovers.
C13_ReloadablePollingRecovers ==
    []((variant = "Reloadable" /\ Unloaded /\ [](disk.ok)) => <>(sym # None))

\* C13, for App: with nothing loaded, a reload() that received no
\* NoticeWrite, Write or Create of the artifact leaves nothing loaded,
\* however loadable the artifact is.
C13_AppNeedsEvent ==
    [][(Reload /\ variant = "App" /\ sym = None /\ ~TriggerPending)
          => (sym' = None /\ ~obs'.attempted)]_vars

---------------------------------------------------------------------------
(* C14 *)

\* C14: when construction fails, at AppSym::new or at any later step, no
\* orchestrator exists (nothing is installed, no handle stays open, none of
\* its operations can be called) and none of init, reload/load, update,
\* unload, deinit has been called: the history holds at most the size() call;
\* and a construction that called `init` called it last, after every
\* fallible step had succeeded.
C14_FailedNewCallsNothing ==
    /\ life = "failed" =>
          /\ obs.op = "new" /\ obs.ret \in {"Err", "Panic"}
          /\ Lifecycle(log) = <<>>
          /\ sym = None /\ handles = {}
          /\ state = <<>>
          /\ ~ENABLED (Reload \/ ReloadNow \/ Update \/ HostMut \/ Drop)
    /\ CallsOf("init") # {} =>
          /\ life \in {"alive", "dropped"}
          /\ EntriesOf(SubSeq(log, 1, 2)) = <<"size", "init">>
    /\ (obs.op = "new" /\ obs.ret = "Ok") =>
          (obs.step = "none" /\ EntriesOf(log) = <<"size", "init">>)

\* Construction failed at the last fallible step, with the library open
\* and its size() already called.
C14_Witness ==
    /\ life = "failed"
    /\ obs.step = "canonicalize"
    /\ obs.loadOk
    /\ EntriesOf(log) = <<"size">>

---------------------------------------------------------------------------
(* C15 *)

\* A reload() that found a write of the artifact pending, a library loaded,
\* and loaded an artifact declaring the size of the old one.
SameSizeReload ==
    /\ obs.op = "reload" /\ obs.should_reload
    /\ ReloadedOk
    /\ obs.newSize = obs.oldSize

\* What C15 says of the calls and the bytes: `unload` once, then `reload`/
\* `load` once, handed the same address, and the bytes `unload` left.
SameSizeCalls ==
    LET calls == Lifecycle(OpCalls)
    IN  /\ EntriesOf(calls) = <<"unload", LoadEntry>>
        /\ calls[1].table = obs.oldId /\ calls[2].table = obs.newId
        /\ obs.ptrUnload = obs.ptrLoad
        /\ obs.ptrLoad = get_state_ptr(alloc)
        /\ obs.bufLoad = obs.bufUnload

\* C15 as stated: in every such reload() the address handed to `unload` and
\* `reload`/`load` is the address `init` received.
C15_Original ==
    SameSizeReload => (SameSizeCalls /\ obs.ptrLoad = alloc.init)

\* C15, amended: in every such reload() `unload` is called once and then
\* `reload`/`load` once, both are handed the same address, which is the
\* address of the buffer before and after the call, and `reload`/`load` sees
\* the bytes `unload` left.  The buffer leaves the address `init` received
\* only in a load whose table needs more words than the buffer has capacity
\* for: until such a load, the address is the one `init` received.
C15_SameSizeReloadKeepsAddress ==
    /\ [](SameSizeReload => SameSizeCalls)
    /\ [][(alloc.addr # NoAddr /\ alloc'.addr # alloc.addr)
             => (disk.ok /\ alloc_size_u64s(disk.size) > alloc.cap)]_vars
    /\ [][(Reload /\ SameSizeReload') => alloc'.addr = alloc.addr]_vars

\* The scenario: new() on an artifact of 8 bytes whose `init` sets byte 0, a
\* write event, and a reload() of an artifact of 8 bytes.
C15_Witness ==
    /\ SameSizeReload
    /\ variant = "Reloadable"
    /\ EntriesOf(log) = <<"size", "init", "unload", "size", "reload">>
    /\ obs.newSize = 8
    /\ Byte(obs.bufLoad, 0) = 1
    /\ obs.ptrLoad = alloc.init /\ alloc.init # NoAddr

---------------------------------------------------------------------------
(* C16 *)

\* The table of the latest `init` or `reload`/`load` call before position j
\* of the history (0 if there is none).
LatestLoaded(j) ==
    LET ts == {log[i].table : i \in {k \in 1..(j - 1) :
                                        log[k].entry \in {"init", LoadEntry}}}
    IN  IF ts = {} THEN 0 ELSE CHOOSE t \in ts : \A u \in ts : u <= t

\* C16: an update() made while a library is loaded calls the `update` entry
\* exactly once and calls nothing else, on the installed table, with the
\* address and the bytes of the orchestrator's buffer, and returns the
\* verdict the entry returned; and every `update` call of the history went
\* to the table loaded last before it, never to an earlier one.
C16_UpdateServedByLatestTable ==
    /\ [](/\ (obs.op = "update" /\ obs.wasLoaded) =>
                /\ OpCalls = <<Call("update", sym.id, {sym.id})>>
                /\ sym.id = obs.oldId
                /\ obs.ret = obs.verdict
                /\ obs.ptrUpdate = get_state_ptr(alloc)
          /\ \A j \in CallsOf("update") : log[j].table = LatestLoaded(j))
    /\ [][(Update /\ sym # None) =>
             /\ Len(state') = Len(state)
             /\ UNCHANGED <<sym, handles, alloc, queue>>]_vars

\* An update() after a reload: the second table served it and its verdict,
\* ShouldQuit::Yes, was returned.
C16_Witness ==
    /\ obs.op = "update" /\ obs.wasLoaded
    /\ obs.oldId = 2
    /\ obs.ret = "Yes"
    /\ \E i \in CallsOf("update") : log[i].table = 1

---------------------------------------------------------------------------
(* C17 *)

\* The `unload` calls made on table t.
UnloadsOf(t) == {i \in CallsOf("unload") : log[i].table = t}

\* A reload_now() (called directly or by reload()) that found nothing loaded
\* and could not open the artifact.
RetryFailed == obs.attempted /\ ~obs.wasLoaded /\ ~obs.loadOk

\* C17: `unload` is called at most once on each table, and once it has been
\* called no entry of that table is called again; a reload() or reload_now()
\* that finds nothing loaded and fails calls nothing at all, so that after a
\* failed reload further failing attempts never repeat the `unload`.
C17_UnloadAtMostOnce ==
    /\ \A t \in 1..nextId : Cardinality(UnloadsOf(t)) <= 1
    /\ \A i \in CallsOf("unload") : \A j \in (i + 1)..Len(log) :
          log[j].table # log[i].table
    /\ RetryFailed =>
          /\ OpCalls = <<>>
          /\ obs.ret = "Err"
          /\ sym = None
          /\ Cardinality(CallsOf("unload")) <= Cardinality(CallsOf(LoadEntry)) + 1

\* A failing attempt made after a failed reload: the one `unload` of the
\* history is that of the failed reload.
C17_Witness ==
    /\ RetryFailed
    /\ obs.ret = "Err"
    /\ Cardinality(CallsOf("unload")) = 1
    /\ log[Len(log)].entry = "unload"

---------------------------------------------------------------------------
(* C18 *)

\* A reload_now() (called directly or by reload()) that found nothing loaded
\* and loaded the artifact.
Recovered == obs.attempted /\ ~obs.wasLoaded /\ obs.loadOk

\* C18: a reload_now() that finds nothing loaded and a loadable artifact
\* calls size() and then `reload`/`load` once on the new table and nothing
\* else (no `unload`, no `init`); the buffer handed to `reload`/`load` has
\* the words the declared size needs and, at every offset both buffers
\* hold, the byte the buffer held when reload_now() was called; the new
\* table is installed with its handle open, and success is returned.
C18_LoadFromUnloaded ==
    Recovered =>
        /\ OpCalls = <<Call("size", obs.newId, {obs.newId}),
                       Call(LoadEntry, obs.newId, {obs.newId})>>
        /\ obs.ret = "Ok"
        /\ sym = Some(obs.newId, obs.newSize)
        /\ handles = {obs.newId}
        /\ life = "alive"
        /\ obs.ptrUnload = NoAddr
        /\ ByteLen(obs.bufLoad) = WordBytes(obs.newSize)
        /\ Len(state) = Len(obs.bufLoad)
        /\ \A o \in 0..(ByteLen(obs.bufLoad) - 1) :
              IF Held(obs.bufUnload, o)
              THEN Byte(obs.bufLoad, o) = Byte(obs.bufUnload, o)
              ELSE Byte(obs.bufLoad, o) = 0

\* reload_now() called with nothing loaded after a failed reload: the
\* artifact of 16 bytes was loaded and the byte the first table had set in
\* its one word was kept.
C18_Witness ==
    /\ Recovered
    /\ obs.op = "reload_now"
    /\ obs.newSize = 16
    /\ Len(obs.bufUnload) = 1
    /\ Byte(obs.bufLoad, 0) = 1
    /\ CallsOf("unload") # {}

---------------------------------------------------------------------------
(* C19 *)

\* How many times the last operation called `entry`.
OpCount(entry) == Cardinality({i \in 1..Len(OpCalls) : OpCalls[i].entry = entry})

\* C19: one reload() performs at most one reload_now(), that is at most one
\* `unload`, one load (one size() call) and one `reload`/`load`, however
\* many of the pending events match the artifact; it receives every event
\* that was pending when it was called, matching or not, and leaves the
\* channel empty, so that a reload() that follows with no event sent in
\* between receives nothing and finds no reason to reload.
C19_OneReloadPerCall ==
    /\ [](obs.op = "reload" =>
             /\ OpCount("unload") <= 1
             /\ OpCount("size") <= 1
             /\ OpCount(LoadEntry) <= 1
             /\ OpCount("init") = 0
             /\ obs.matched <= obs.received
             /\ obs.should_reload <=> obs.matched > 0)
    /\ [][Reload => (queue' = <<>> /\ obs'.received = Len(queue))]_vars
    /\ [][(Reload /\ obs.op = "reload" /\ queue = <<>>) =>
             (obs'.received = 0 /\ ~obs'.should_reload)]_vars

\* A reload() that received two events, both of them triggers for the
\* artifact, and reloaded once.
C19_Witness ==
    /\ obs.op = "reload"
    /\ obs.received = 2 /\ obs.matched = 2
    /\ ReloadedOk
    /\ OpCount("unload") = 1 /\ OpCount(LoadEntry) = 1
    /\ queue = <<>>

---------------------------------------------------------------------------
(* C20 *)

\* ceil(s / 8): the least number of 8-byte words that hold s bytes.
CeilWords(s) == CHOOSE n \in 0..s : 8 * n >= s /\ (n = 0 \/ 8 * (n - 1) < s)

\* The buffer buf is sized for a table that declares s bytes.
SizedFor(buf, s) ==
    /\ Len(buf) = CeilWords(s)
    /\ ByteLen(buf) >= s
    /\ ByteLen(buf) < s + 8

\* C20: whenever a library is loaded the buffer holds exactly ceil(s / 8)
\* words for the size s its table declared, and so at least s and fewer
\* than s + 8 bytes; and the buffer had that length for the table called at
\* every call of `init`, `reload`/`load`, `unload`, `update` and `deinit`.
C20_BufferIsCeilWords ==
    /\ sym # None => SizedFor(state, sym.size)
    /\ (obs.op = "new" /\ obs.ret = "Ok") => SizedFor(obs.bufLoad, obs.newSize)
    /\ (obs.attempted /\ obs.loadOk) => SizedFor(obs.bufLoad, obs.newSize)
    /\ (obs.attempted /\ obs.wasLoaded) => SizedFor(obs.bufUnload, obs.oldSize)
    /\ (obs.op \in {"update", "drop"} /\ obs.wasLoaded) =>
          SizedFor(state, obs.oldSize)

\* A reload from 16 to 4 bytes: `unload` was handed two words, `reload`/
\* `load` one.
C20_Witness ==
    /\ Shrunk
    /\ obs.oldSize = 16 /\ obs.newSize = 4
    /\ Len(obs.bufUnload) = 2
    /\ Len(obs.bufLoad) = 1
    /\ Len(state) = 1

---------------------------------------------------------------------------
(* C21: the resize for sizes near the largest usize *)

\* The last operation loaded a table and reached realloc_buffer.
ResizeReached ==
    /\ obs.op \in {"new", "reload", "reload_now"}
    /\ obs.loadOk
    /\ obs.step \notin NewSteps

\* C21: for every byte count a table reports through size(), those within
\* 7 of the largest usize included, the resize returns and leaves a buffer
\* of at least that many bytes.
C21_ResizeHoldsDeclaredSize ==
    ResizeReached =>
        /\ obs.ret = "Ok"
        /\ ByteLen(obs.bufLoad) >= obs.newSize
        /\ ByteLen(state) >= obs.newSize

\* What the resize does keep: a buffer of at least the declared size
\* whenever `size + 7` fits the usize.
C21_HoldsWhereSumFits ==
    (ResizeReached /\ ~add_overflows(obs.newSize)) =>
        /\ obs.ret = "Ok"
        /\ ByteLen(obs.bufLoad) >= obs.newSize

\* A build without overflow checks: the table declared the largest usize,
\* the load returned Ok and its entry was handed a buffer of no words.
C21_WrappedToEmpty ==
    /\ ResizeReached
    /\ ~alloc.checked
    /\ obs.newSize = UsizeMod - 1
    /\ obs.ret = "Ok"
    /\ obs.bufLoad = <<>>
    /\ sym # None

\* A build with overflow checks: new() panicked in the resize and the
\* unwinding dropped the orchestrator, whose Drop called `deinit` of a
\* table that never saw `init`.
C21_PanickedInNew ==
    /\ life = "panicked"
    /\ obs.op = "new"
    /\ alloc.checked
    /\ EntriesOf(log) = <<"size", "deinit">>

---------------------------------------------------------------------------
(* C23: the result of reload() and reload_now() in Reloadable *)

\* The last operation was a reload() or reload_now() of Reloadable.
ReloadableReturned ==
    /\ variant = "Reloadable"
    /\ obs.op \in {"reload", "reload_now"}

\* C23: in Reloadable, when reload() or reload_now() has returned Ok a
\* library is loaded and when it has returned Err nothing is loaded; and an
\* update() that follows a reload() that returned Ok calls the `update`
\* entry of the loaded table.
C23_ResultAgreesWithState ==
    /\ [](ReloadableReturned =>
            /\ obs.ret = "Ok" => sym # None
            /\ obs.ret = "Err" => sym = None)
    /\ [][(ReloadableReturned /\ obs.op = "reload" /\ obs.ret = "Ok" /\ Update)
              => /\ sym # None
                 /\ OpCalls' = <<Call("update", sym.id, handles)>>
                 /\ sym.id \in handles]_vars

\* A reload() of Reloadable that found nothing loaded and no event in the
\* channel, loaded the artifact and returned Ok.
C23_Witness ==
    /\ ReloadableReturned
    /\ obs.op = "reload"
    /\ ~obs.wasLoaded
    /\ obs.received = 0
    /\ obs.attempted
    /\ obs.ret = "Ok"
    /\ sym # None

---------------------------------------------------------------------------
(* C22: reload() terminates beside the worker *)

\* C22: a caller inside the loop of reload() always has a step to take,
\* whether or not an event is in the channel; the loop has received no
\* more events than the worker has sent; and, the worker sending finitely
\* many events, every reload() that was begun returns.
C22_ReloadTerminates ==
    /\ [](call.pc = "drain" => ENABLED (ReloadRecv \/ ReloadExit))
    /\ [](call.pc = "load" => ENABLED ReloadLoad)
    /\ [](call.received <= Len(call.sent))
    /\ (call.pc # "idle") ~> (call.pc = "idle")

\* A reload() that has returned after its loop received two events, one
\* of them sent by the worker while the call was running.
C22_Witness ==
    /\ call.pc = "idle"
    /\ obs.op = "reload"
    /\ obs.received = 2
    /\ call.received = 2
    /\ call.during >= 1

---------------------------------------------------------------------------
(* C24: no relevant event is lost, and events are received in order *)

\* C24: a reload() that began after a relevant event was sent does not
\* return before a reload_now() has started; a reload() that returns
\* without calling reload_now() leaves no relevant event behind, in the
\* channel or received; and the events the loop has received, followed by
\* those still in the channel, are the events the worker sent, in the
\* order it sent them.
C24_NoChangeLost ==
    /\ [](call.pc = "idle" => ~call.due)
    /\ [](call.sent = call.taken \o queue)
    /\ [][(ReloadExit /\ call'.pc = "idle") =>
              /\ call.owed = "none"
              /\ \A i \in 1..Len(queue') : ~Relevant(queue'[i])]_vars
    /\ [][ReloadRecv => (call'.taken = Append(call.taken, Head(queue))
                         /\ queue' = Tail(queue))]_vars

\* A relevant event was sent while an earlier reload() was already past
\* its loop; the next reload() received it and has called reload_now().
C24_Witness ==
    /\ call.pc = "idle"
    /\ obs.op = "reload"
    /\ obs.attempted
    /\ call.handled = "load"
    /\ call.received >= 1
    /\ queue = <<>>

\* A relevant event sent while the loop was running was received by that
\* same reload(), which has called reload_now().
C24_ReceivedInSameCall ==
    /\ call.pc = "idle"
    /\ obs.op = "reload"
    /\ obs.attempted
    /\ call.handled = "drain"
    /\ call.during >= 1

=============================================================================
